---- MODULE Spec2Model ----
(***************************************************************************)
(* Verification model of hicexplorer/hicDetectLoops.py.                    *)
(*                                                                         *)
(* Spec, FairSpec : the chromosome orchestrator of main() (lines 400-487). *)
(* SpecLoops      : compute_loops from the screened candidates (348-376). *)
(* SpecDedup      : candidate_uniform_distribution_test from line 237 on, *)
(*                  up to MaxCand tested candidates, window 1.            *)
(* SpecDedupWide  : the same, up to MaxCandWide tested candidates.        *)
(* SpecCollapse   : the clustering and the cluster scan (lines 237-264).  *)
(* SpecZ          : compute_zscore_matrix and the screening (101-163).    *)
(***************************************************************************)
EXTENDS Integers, Sequences, FiniteSets, TLC

\* ------------------------------------------------------------------ bounds
\* chromosomes, worker slots, loops per chromosome; bins are 0 .. MaxBin;
\* candidates per list; p-values are 1 .. MaxP - 1 units, pValue is MaxP and
\* qValue 1 .. MaxQ units; window sizes 1 .. MaxW; stored matrix entries and
\* their values; the z-score and peak-interaction thresholds
MaxChrom == 3
MaxThreads == 2
MaxLoops == 1
MaxBin == 2
MaxCand == 3
MaxCandWide == 5
MaxP == 3
MaxQ == 2
MaxW == 1
MaxStored == 4
MaxValue == 3
MaxZ == 1
MaxPit == 1

VARIABLES
    pc,                          \* position of the running function
    \* ---- main(): orchestrator state
    is_cooler,                   \* check_cooler(args.matrix)
    threads,                     \* args.threads
    chromosomes_list,
    queue,                       \* queue[i]: the slot's Queue object or None
    process,                     \* process[i]: pid of the slot's Process or None
    thread_done,
    all_data_processed,
    all_threads_done,
    count_call_of_read_input,
    mapped_loops,
    i,                           \* index of the for loop of line 441
    procs,                       \* started and not yet joined worker processes
    merged,                      \* history: the workers whose result was merged
    worker_result,               \* history: what each chromosome's worker posted
    \* ---- compute_loops / compute_long_range_contacts /
    \* ---- candidate_uniform_distribution_test
    pQueue,                      \* compute_loops' pQueue: None or the items put on it
    pWindowSize,
    pPValue,
    pQValue,
    pCandidates,
    pvalues,
    tested,                      \* history: pCandidates and pvalues as of line 235
    clusters,
    mask,
    pvalues_,
    largest_p_i,
    accepted_index,              \* rows of pCandidates (line 279 appends views)
    pvalues_accepted,
    delete_index,
    accepted_from,               \* history: the rows of tested that accepted_index holds
    deleted_from,                \* history: the rows of tested that line 304 deleted
    ret,                         \* what compute_long_range_contacts returns
    compute_loops_ret,           \* what compute_loops returns
    \* ---- compute_zscore_matrix and the screening of compute_long_range_contacts
    matrix,                      \* pHiCMatrix.matrix: stored entries, row-major
    pZscoreThreshold,
    pPeakInteractionsThreshold,
    sum_per_distance,
    distance_count,
    zscore_matrix,               \* stored entries of the z-score matrix
    candidates                   \* the candidates of line 163

mainVars == <<is_cooler, threads, chromosomes_list, queue, process,
              thread_done, all_data_processed, all_threads_done,
              count_call_of_read_input, mapped_loops, i, procs, merged,
              worker_result>>

loopVars == <<pQueue, pWindowSize, pPValue, pQValue, pCandidates, pvalues,
              tested, clusters, mask, pvalues_, largest_p_i, accepted_index,
              pvalues_accepted, delete_index, accepted_from, deleted_from,
              ret, compute_loops_ret>>

zVars == <<matrix, pZscoreThreshold, pPeakInteractionsThreshold,
           sum_per_distance, distance_count, zscore_matrix, candidates>>

notMain == <<loopVars, zVars>>

vars == <<pc, mainVars, loopVars, zVars>>

\* ---------------------------------------------------------------- helpers
None == 0                        \* a slot holding no Queue / no Process

Slots == 0 .. (threads - 1)      \* range(args.threads)

NoQueue == [id |-> None, items |-> <<>>]

\* Queue(): a fresh empty queue object; objects are told apart by id
NewQueue(id) == [id |-> id, items |-> <<>>]

\* what compute_loops puts on its queue: [None] or [mapped_loops]
NoLoops == [none |-> TRUE, loops |-> <<>>]

LoopList(c, m) == [k \in 1 .. m |-> <<c, k>>]

ResultsOf(c) == {NoLoops} \cup
                {[none |-> FALSE, loops |-> LoopList(c, m)] : m \in 0 .. MaxLoops}

\* list.extend
Extend(l, r) == l \o r

\* ------------------------------------------------------------------- main
MainInit ==
    /\ pc = "start"
    /\ is_cooler \in BOOLEAN
    /\ threads \in 1 .. MaxThreads
    /\ \E n \in 1 .. MaxChrom : chromosomes_list = [k \in 1 .. n |-> k]
    /\ queue = <<>>
    /\ process = <<>>
    /\ thread_done = <<>>
    /\ all_data_processed = FALSE
    /\ all_threads_done = FALSE
    /\ count_call_of_read_input = 0
    /\ mapped_loops = <<>>
    /\ i = 0
    /\ procs = {}
    /\ merged = {}
    /\ worker_result = [c \in 1 .. Len(chromosomes_list) |-> NoLoops]

\* lines 401-422: the matrix is loaded and the mode is chosen.  Line 405
\* reads the local name chromosome before any assignment to it.
LoadMatrix ==
    /\ UNCHANGED notMain
    /\ pc = "start"
    /\ pc' = IF ~is_cooler THEN "UnboundLocalError"
             ELSE IF Len(chromosomes_list) = 1 THEN "single_core"
             ELSE "multi_core"
    /\ UNCHANGED mainVars

\* lines 423-432: one chromosome, computed in the calling process
SingleCore ==
    /\ UNCHANGED notMain
    /\ pc = "single_core"
    /\ \E loops \in ResultsOf(chromosomes_list[1]) :
          /\ mapped_loops' = IF ~loops.none THEN Extend(mapped_loops, loops.loops)
                             ELSE mapped_loops
          /\ worker_result' = [worker_result EXCEPT ![chromosomes_list[1]] = loops]
    /\ pc' = "done"
    /\ UNCHANGED <<is_cooler, threads, chromosomes_list, queue, process,
                   thread_done, all_data_processed, all_threads_done,
                   count_call_of_read_input, i, procs, merged>>

\* lines 434-439
MultiCoreSetup ==
    /\ UNCHANGED notMain
    /\ pc = "multi_core"
    /\ queue' = [s \in Slots |-> NoQueue]
    /\ process' = [s \in Slots |-> None]
    /\ all_data_processed' = FALSE
    /\ all_threads_done' = FALSE
    /\ thread_done' = [s \in Slots |-> FALSE]
    /\ count_call_of_read_input' = 0
    /\ pc' = "while"
    /\ UNCHANGED <<is_cooler, threads, chromosomes_list, mapped_loops, i, procs,
                   merged, worker_result>>

\* line 440: the loop test, and the start of the for loop of line 441
While ==
    /\ UNCHANGED notMain
    /\ pc = "while"
    /\ IF ~all_data_processed \/ ~all_threads_done
          THEN pc' = "for" /\ i' = 0
          ELSE pc' = "done" /\ i' = i
    /\ UNCHANGED <<is_cooler, threads, chromosomes_list, queue, process,
                   thread_done, all_data_processed, all_threads_done,
                   count_call_of_read_input, mapped_loops, procs, merged,
                   worker_result>>

\* the for loop of line 441 moves to the next slot, or to line 478
NextSlot ==
    IF i + 1 < threads THEN pc' = "for" /\ i' = i + 1
    ELSE pc' = "after_for" /\ i' = i

\* line 442 without its test of the slot's queue
DispatchGuardAnySlot(s) == ~all_data_processed

\* line 442
DispatchGuard(s) == queue[s].id = None /\ ~all_data_processed

\* line 463
CollectGuard(s) == queue[s].id # None /\ queue[s].items # <<>>

\* line 473
MarkDoneGuard(s) == all_data_processed /\ queue[s].id = None

\* lines 444-462: a worker is started for chromosomes_list[count_call_of_read_input]
\* (0-based).  The list is indexed (line 447 and line 454) before line 459
\* compares the counter with the length of the list.
Dispatch ==
    /\ IF count_call_of_read_input < Len(chromosomes_list)
          THEN /\ queue' = [queue EXCEPT ![i] = NewQueue(count_call_of_read_input + 1)]
               /\ thread_done' = [thread_done EXCEPT ![i] = FALSE]
               /\ process' = [process EXCEPT ![i] = count_call_of_read_input + 1]
               /\ procs' = procs \cup
                     {[pid |-> count_call_of_read_input + 1,
                       slot |-> i,
                       chrom |-> chromosomes_list[count_call_of_read_input + 1],
                       posted |-> FALSE]}
               /\ count_call_of_read_input' = count_call_of_read_input + 1
               /\ NextSlot
               /\ UNCHANGED all_data_processed
          ELSE \* chromosomes_list[len(chromosomes_list)] raises at line 447
               /\ queue' = [queue EXCEPT ![i] = NewQueue(count_call_of_read_input + 1)]
               /\ thread_done' = [thread_done EXCEPT ![i] = FALSE]
               /\ pc' = "IndexError"
               /\ UNCHANGED <<process, procs, count_call_of_read_input,
                              all_data_processed, i>>
    /\ UNCHANGED <<is_cooler, threads, chromosomes_list, all_threads_done,
                   mapped_loops, merged, worker_result>>

\* lines 464-472: the slot's result is taken, merged, and the worker joined
Collect ==
    /\ LET result == Head(queue[i].items)
       IN  mapped_loops' = IF ~result.none THEN Extend(mapped_loops, result.loops)
                           ELSE mapped_loops
    /\ queue' = [queue EXCEPT ![i] = NoQueue]
    /\ procs' = {p \in procs : p.pid # process[i]}
    /\ merged' = merged \cup {[pid |-> process[i], slot |-> i]}
    /\ process' = [process EXCEPT ![i] = None]
    /\ thread_done' = [thread_done EXCEPT ![i] = TRUE]
    /\ NextSlot
    /\ UNCHANGED <<is_cooler, threads, chromosomes_list, all_data_processed,
                   all_threads_done, count_call_of_read_input, worker_result>>

\* line 474
MarkDone ==
    /\ thread_done' = [thread_done EXCEPT ![i] = TRUE]
    /\ NextSlot
    /\ UNCHANGED <<is_cooler, threads, chromosomes_list, queue, process,
                   all_data_processed, all_threads_done,
                   count_call_of_read_input, mapped_loops, procs, merged,
                   worker_result>>

\* line 476: the slot's worker has not posted yet
Sleep ==
    /\ NextSlot
    /\ UNCHANGED <<is_cooler, threads, chromosomes_list, queue, process,
                   thread_done, all_data_processed, all_threads_done,
                   count_call_of_read_input, mapped_loops, procs, merged,
                   worker_result>>

\* lines 442-476: the body of the for loop, for slot i
ForBody ==
    /\ UNCHANGED notMain
    /\ pc = "for"
    /\ IF DispatchGuard(i) THEN Dispatch
       ELSE IF CollectGuard(i) THEN Collect
       ELSE IF MarkDoneGuard(i) THEN MarkDone
       ELSE Sleep

\* lines 478-482
AfterFor ==
    /\ UNCHANGED notMain
    /\ pc = "after_for"
    /\ all_threads_done' = IF all_data_processed
                              THEN \A s \in Slots : thread_done[s]
                              ELSE all_threads_done
    /\ pc' = "while"
    /\ UNCHANGED <<is_cooler, threads, chromosomes_list, queue, process,
                   thread_done, all_data_processed, count_call_of_read_input,
                   mapped_loops, i, procs, merged, worker_result>>

\* a worker process: compute_loops(..., pQueue=queue[i]) ends with
\* pQueue.put([None]) (line 367) or pQueue.put([mapped_loops]) (line 375)
WorkerPut ==
    /\ UNCHANGED notMain
    /\ \E p \in procs :
        /\ ~p.posted
        /\ \E r \in ResultsOf(p.chrom) :
              /\ procs' = (procs \ {p}) \cup {[p EXCEPT !.posted = TRUE]}
              /\ queue' = [queue EXCEPT ![p.slot] =
                              IF queue[p.slot].id = p.pid
                                 THEN [@ EXCEPT !.items = Append(@, r)]
                                 ELSE @]
              /\ worker_result' = [worker_result EXCEPT ![p.chrom] = r]
        /\ UNCHANGED <<pc, is_cooler, threads, chromosomes_list, process,
                       thread_done, all_data_processed, all_threads_done,
                       count_call_of_read_input, mapped_loops, i, merged>>

\* ------------------------------------------------- loop detection: values
\* np.inf in place of line 270's -np.inf: above every p-value
PosInf == MaxP + 1

\* -np.inf (line 270): below every p-value
NegInf == -1

\* dbscan(..., min_samples=2) (line 242)
min_samples == 2

\* dbscan's label of a noise sample
Noise == -1

Bins == 0 .. MaxBin

\* the stored positions of a matrix, in the row-major order of nonzero()
Positions == {<<x, y>> : x \in Bins, y \in Bins}

RowMajorLess(a, b) == a[1] < b[1] \/ (a[1] = b[1] /\ a[2] < b[2])

RECURSIVE RowMajor(_)
RowMajor(S) ==
    IF S = {} THEN <<>>
    ELSE LET first == CHOOSE a \in S : \A b \in S \ {a} : RowMajorLess(a, b)
         IN  <<first>> \o RowMajor(S \ {first})

CandidateLists(n) ==
    {RowMajor(S) : S \in {T \in SUBSET Positions : Cardinality(T) <= n}}

\* numpy boolean indexing a[mask]
RECURSIVE BoolIndex(_, _)
BoolIndex(a, m) ==
    IF a = <<>> THEN <<>>
    ELSE (IF Head(m) THEN <<Head(a)>> ELSE <<>>) \o BoolIndex(Tail(a), Tail(m))

\* np.sort, ascending
RECURSIVE Insert(_, _)
Insert(x, a) ==
    IF a = <<>> THEN <<x>>
    ELSE IF x <= Head(a) THEN <<x>> \o a
    ELSE <<Head(a)>> \o Insert(x, Tail(a))

RECURSIVE Sort(_)
Sort(a) == IF a = <<>> THEN <<>> ELSE Insert(Head(a), Sort(Tail(a)))

\* euclidean_distances(pCandidates)[a][b] <= eps, on integer coordinates
Within(a, b, eps) ==
    (a[1] - b[1]) * (a[1] - b[1]) + (a[2] - b[2]) * (a[2] - b[2]) <= eps * eps

\* the samples density-reachable from the samples S
RECURSIVE Component(_, _, _)
Component(cands, S, eps) ==
    LET T == S \cup {j \in DOMAIN cands :
                        \E k \in S : Within(cands[k], cands[j], eps)}
    IN  IF T = S THEN S ELSE Component(cands, T, eps)

MinOf(S) == CHOOSE a \in S : \A b \in S : a <= b

\* dbscan(X=distances, eps, metric='precomputed', min_samples=2)[1]: a sample
\* with fewer than min_samples samples within eps (itself included) is noise;
\* the clusters are numbered 0, 1, ... in the order of their first sample
Dbscan(cands, eps) ==
    LET comp == [k \in DOMAIN cands |-> Component(cands, {k}, eps)]
        clustered == {k \in DOMAIN cands : Cardinality(comp[k]) >= min_samples}
        first == [k \in DOMAIN cands |-> MinOf(comp[k])]
        firsts == {first[k] : k \in clustered}
    IN  [k \in DOMAIN cands |->
            IF k \notin clustered THEN Noise
            ELSE Cardinality({f \in firsts : f < first[k]})]

\* line 249 with <= in place of <
PValueLowerOrEqual(p, best) == p <= best

\* line 249: pvalues[i] < cluster_dict[cluster][1]
PValueLower(p, best) == p < best

\* lines 243-258: the scan over the cluster labels; k is the next index
\* (1-based), m the mask so far, cluster_dict maps a label to <<index, p-value>>
RECURSIVE ClusterScan(_, _, _, _, _)
ClusterScan(cl, pv, k, m, cluster_dict) ==
    IF k > Len(cl) THEN m
    ELSE IF cl[k] = Noise
        THEN ClusterScan(cl, pv, k + 1, Append(m, TRUE), cluster_dict)
    ELSE IF cl[k] \in DOMAIN cluster_dict
        THEN IF PValueLower(pv[k], cluster_dict[cl[k]][2])
                THEN ClusterScan(cl, pv, k + 1,
                         Append([m EXCEPT ![cluster_dict[cl[k]][1]] = FALSE], TRUE),
                         (cl[k] :> <<k, pv[k]>>) @@ cluster_dict)
                ELSE ClusterScan(cl, pv, k + 1, Append(m, FALSE), cluster_dict)
    ELSE ClusterScan(cl, pv, k + 1, Append(m, TRUE),
                     (cl[k] :> <<k, pv[k]>>) @@ cluster_dict)

ClusterMask(cl, pv) == ClusterScan(cl, pv, 1, <<>>, <<>>)

\* line 272: p <= pQValue * (i + 1) / len(pvalues_), in exact arithmetic
\* (k is the 1-based rank i + 1)
BelowBHLine(p, q, k, m) == p * m <= q * k

\* lines 270-274: the scan over the sorted p-values
RECURSIVE LargestP(_, _, _, _)
LargestP(sorted, q, k, largest) ==
    IF k > Len(sorted) THEN largest
    ELSE LargestP(sorted, q, k + 1,
             IF BelowBHLine(sorted[k], q, k, Len(sorted)) /\ sorted[k] >= largest
                THEN sorted[k] ELSE largest)

\* line 278 with <= in place of <
AcceptsUpTo(p, largest) == p <= largest

\* line 278: pvalues[i] < largest_p_i
Accepts(p, largest) == p < largest

\* lines 277-280: the rows accepted, in order
AcceptedRows(pv, largest) ==
    BoolIndex([k \in DOMAIN pv |-> k], [k \in DOMAIN pv |-> Accepts(pv[k], largest)])

\* lines 285-289 left out: the candidate as it is
CanonicalNoSwap(c) == c

\* lines 285-289: first index <= second
Canonical(c) == IF c[1] > c[2] THEN <<c[2], c[1]>> ELSE c

\* lines 290-299: the indices (1-based) of the candidates whose first value was
\* seen as a first value and whose second value was seen as a second value
RECURSIVE DuplicateScan(_, _, _, _, _)
DuplicateScan(acc, k, duplicate_set_x, duplicate_set_y, del) ==
    IF k > Len(acc) THEN del
    ELSE IF acc[k][1] \in duplicate_set_x /\ acc[k][2] \in duplicate_set_y
        THEN DuplicateScan(acc, k + 1, duplicate_set_x, duplicate_set_y,
                           del \cup {k})
    ELSE DuplicateScan(acc, k + 1, duplicate_set_x \cup {acc[k][1]},
                       duplicate_set_y \cup {acc[k][2]}, del)

\* np.delete(a, delete_index, axis=0)
Delete(a, del) == BoolIndex(a, [k \in DOMAIN a |-> k \notin del])

ReturnNone == [none |-> TRUE, candidates |-> <<>>, pvalues |-> <<>>]

\* lines 310-321: bin k starts at genomic position k (bins of unit size);
\* a pair farther apart than pMaxLoopDistance is dropped
RECURSIVE cluster_to_genome_position_mapping(_, _, _)
cluster_to_genome_position_mapping(cands, pv, pMaxLoopDistance) ==
    IF cands = <<>> THEN <<>>
    ELSE LET c == Head(cands)
             distance == IF c[1] >= c[2] THEN c[1] - c[2] ELSE c[2] - c[1]
             rest == cluster_to_genome_position_mapping(Tail(cands), Tail(pv),
                                                        pMaxLoopDistance)
         IN  IF ~pMaxLoopDistance.isNone /\ distance > pMaxLoopDistance.value
                THEN rest
                ELSE <<<<c[1], c[2], Head(pv)>>>> \o rest

\* ------------------------------------------------ z-scores and screening
\* Exact arithmetic on the integer contact counts.  With n entries at a
\* distance and s their sum_per_distance, the mean is s / n, the deviation of
\* a value v is (n * v - s) / n, sigma squared is q / n^3 with q the sum of the
\* squares (n * v - s)^2, and the z-score of v is (n * v - s) / sqrt(q / n).
\* q > 0 whenever n > 0, the sum being shifted by one.

\* the variables of the z-score computation while another function is followed
ZIdle ==
    /\ matrix = <<>>
    /\ pZscoreThreshold = 0
    /\ pPeakInteractionsThreshold = 0
    /\ sum_per_distance = <<>>
    /\ distance_count = <<>>
    /\ zscore_matrix = <<>>
    /\ candidates = [none |-> TRUE, list |-> <<>>]

\* pMatrix.shape[0]
Shape == MaxBin + 1

\* np.absolute(instances - features)
Distance(e) == IF e.row >= e.col THEN e.row - e.col ELSE e.col - e.row

\* the matrices of at most MaxStored stored (nonzero) contact counts
Matrices ==
    UNION {[DOMAIN cl -> 1 .. MaxValue] \X {cl} : cl \in CandidateLists(MaxStored)}

\* line 111: sum_per_distance = np.ones(pMatrix.shape[0])
SumStart == 1

RECURSIVE SumOver(_, _)
SumOver(a, d) ==
    IF a = <<>> THEN 0
    ELSE (IF Distance(Head(a)) = d THEN Head(a).value ELSE 0) + SumOver(Tail(a), d)

\* lines 93-98: _sum_per_distance, the sums
SumPerDistance(a) == [d \in 0 .. (Shape - 1) |-> SumStart + SumOver(a, d)]

\* lines 93-98: _sum_per_distance, the counts
DistanceCount(a) ==
    [d \in 0 .. (Shape - 1) |-> Cardinality({k \in DOMAIN a : Distance(a[k]) = d})]

\* n times the deviation data[i] - mean_adjusted[distances[i]] of line 122
ScaledDeviation(e, sums, counts) ==
    counts[Distance(e)] * e.value - sums[Distance(e)]

RECURSIVE SquaresOver(_, _, _, _)
SquaresOver(a, d, sums, counts) ==
    IF a = <<>> THEN 0
    ELSE (IF Distance(Head(a)) = d
             THEN ScaledDeviation(Head(a), sums, counts)
                  * ScaledDeviation(Head(a), sums, counts)
             ELSE 0)
         + SquaresOver(Tail(a), d, sums, counts)

\* lines 101-131: the z-score of an entry as dev / sqrt(sq / n)
ZScores(a, sums, counts) ==
    [k \in DOMAIN a |->
        [row |-> a[k].row, col |-> a[k].col,
         dev |-> ScaledDeviation(a[k], sums, counts),
         sq |-> SquaresOver(a, Distance(a[k]), sums, counts),
         n |-> counts[Distance(a[k])]]]

\* lines 101-131
ComputeZscoreMatrix ==
    /\ pc = "compute_zscore_matrix"
    /\ sum_per_distance' = SumPerDistance(matrix)
    /\ distance_count' = DistanceCount(matrix)
    /\ zscore_matrix' = ZScores(matrix, sum_per_distance', distance_count')
    /\ pc' = "compute_long_range_contacts"
    /\ UNCHANGED <<mainVars, loopVars, matrix, pZscoreThreshold,
                   pPeakInteractionsThreshold, candidates>>

\* the z-score z is zero
IsZero(z) == z.dev = 0

\* line 149: z >= pZscoreThreshold, for a threshold >= 0
AtLeast(z, t) == z.dev >= 0 /\ z.dev * z.dev * z.n >= t * t * z.sq

\* numpy broadcasting of two one-dimensional arrays of lengths a and b: the
\* length of the result, or -1 when the shapes do not broadcast
BroadcastLen(a, b) ==
    IF a = b THEN a
    ELSE IF a = 1 THEN b
    ELSE IF b = 1 THEN a
    ELSE -1

\* lines 140-163
ScreenContacts ==
    /\ pc = "compute_long_range_contacts"
    /\ LET \* line 141: eliminate_zeros drops the stored zeros
           z == BoolIndex(zscore_matrix,
                          [k \in DOMAIN zscore_matrix |-> ~IsZero(zscore_matrix[k])])
           zmask == [k \in DOMAIN z |-> AtLeast(z[k], pZscoreThreshold)]
           mask_interactions ==
               [k \in DOMAIN matrix |-> matrix[k].value > pPeakInteractionsThreshold]
           len == BroadcastLen(Len(zmask), Len(mask_interactions))
           both == [k \in 1 .. len |->
                       /\ zmask[IF Len(zmask) = 1 THEN 1 ELSE k]
                       /\ mask_interactions[IF Len(mask_interactions) = 1 THEN 1 ELSE k]]
       IN  IF len = -1
              THEN \* line 154: operands could not be broadcast together
                   pc' = "ValueError" /\ candidates' = candidates
           ELSE IF len # Len(z)
              THEN \* line 155: the boolean index does not match the array
                   pc' = "IndexError" /\ candidates' = candidates
           ELSE LET kept == BoolIndex(z, both)
                IN  /\ pc' = "screened"
                    /\ candidates' =
                          [none |-> Len(kept) = 0,
                           list |-> [k \in DOMAIN kept |-> <<kept[k].row, kept[k].col>>]]
    /\ UNCHANGED <<mainVars, loopVars, matrix, pZscoreThreshold,
                   pPeakInteractionsThreshold, sum_per_distance, distance_count,
                   zscore_matrix>>

\* ------------------------------------------------ loop detection: actions
\* the variables of main() while another function is followed
MainIdle ==
    /\ is_cooler = TRUE
    /\ threads = 1
    /\ chromosomes_list = <<>>
    /\ queue = <<>>
    /\ process = <<>>
    /\ thread_done = <<>>
    /\ all_data_processed = FALSE
    /\ all_threads_done = FALSE
    /\ count_call_of_read_input = 0
    /\ mapped_loops = <<>>
    /\ i = 0
    /\ procs = {}
    /\ merged = {}
    /\ worker_result = <<>>

\* lines 176-185 and the locals not yet assigned
LoopLocals ==
    /\ clusters = <<>>
    /\ mask = <<>>
    /\ pvalues_ = <<>>
    /\ largest_p_i = NegInf
    /\ accepted_index = <<>>
    /\ pvalues_accepted = <<>>
    /\ delete_index = {}
    /\ accepted_from = <<>>
    /\ deleted_from = {}
    /\ ret = ReturnNone
    /\ compute_loops_ret = NoLoops

\* the variables of the loop detection while main() is followed
LoopIdle ==
    /\ pQueue = [isNone |-> TRUE, items |-> <<>>]
    /\ pWindowSize = 1
    /\ pPValue = 1
    /\ pQValue = 1
    /\ pCandidates = <<>>
    /\ pvalues = <<>>
    /\ tested = [candidates |-> <<>>, pvalues |-> <<>>]
    /\ LoopLocals

\* pArgs: windowSize >= 1, pValue and qValue in the unit of the p-values
LoopArgs ==
    /\ pWindowSize \in 1 .. MaxW
    /\ pPValue = MaxP
    /\ pQValue \in 1 .. MaxQ

\* compute_loops is called on the candidates the screening left (line 163)
LoopsInit ==
    /\ pc = "compute_loops"
    /\ MainIdle
    /\ ZIdle
    /\ LoopArgs
    /\ pQueue \in {[isNone |-> TRUE, items |-> <<>>], [isNone |-> FALSE, items |-> <<>>]}
    /\ pCandidates \in CandidateLists(MaxCand)
    /\ pvalues = <<>>
    /\ tested = [candidates |-> <<>>, pvalues |-> <<>>]
    /\ LoopLocals

\* candidate_uniform_distribution_test as of line 237: n candidates at most
\* passed the test, each with a p-value below pPValue; windows is the set the
\* window size is drawn from
TestedInit(n, windows) ==
    /\ pc = "cluster"
    /\ MainIdle
    /\ ZIdle
    /\ pWindowSize \in windows
    /\ pPValue = MaxP
    /\ pQValue \in 1 .. MaxQ
    /\ pQueue = [isNone |-> TRUE, items |-> <<>>]
    /\ pCandidates \in CandidateLists(n)
    /\ pvalues \in [DOMAIN pCandidates -> 1 .. (pPValue - 1)]
    /\ tested = [candidates |-> pCandidates, pvalues |-> pvalues]
    /\ LoopLocals

\* candidate_uniform_distribution_test as of line 237, the candidates laid out
\* for the clustering: candidate k lies in row k - 1 and in the column group
\* column[k]; the groups are more than a window apart, the rows of a group at
\* most a window, so that the candidates of a group form one cluster and a
\* candidate alone in its group is noise
ClusteredInit ==
    /\ pc = "cluster"
    /\ MainIdle
    /\ ZIdle
    /\ pPValue = MaxP
    /\ pQValue = 1
    /\ pQueue = [isNone |-> TRUE, items |-> <<>>]
    /\ \E n \in 1 .. MaxCand :
          /\ pWindowSize = n
          /\ \E column \in [1 .. n -> 0 .. (n - 1)] :
                pCandidates = [k \in 1 .. n |-> <<k - 1, (n + 1) * column[k]>>]
          /\ pvalues \in [1 .. n -> 1 .. (pPValue - 1)]
    /\ tested = [candidates |-> pCandidates, pvalues |-> pvalues]
    /\ LoopLocals

\* lines 349-358: with --zScoreMatrixName given, line 358 reads
\* pArgs.scoreMatrixName, an attribute the parser never defines
ComputeLoopsStart ==
    /\ pc = "compute_loops"
    /\ \E zScoreMatrixName \in BOOLEAN :
          pc' = IF zScoreMatrixName THEN "AttributeError" ELSE "screen"
    /\ UNCHANGED <<mainVars, zVars, loopVars>>

\* lines 160-166 of compute_long_range_contacts
Screen ==
    /\ pc = "screen"
    /\ IF Len(pCandidates) = 0
          THEN ret' = ReturnNone /\ pc' = "contacts_returned"
          ELSE ret' = ret /\ pc' = "tester"
    /\ UNCHANGED <<mainVars, zVars, pQueue, pWindowSize, pPValue, pQValue, pCandidates,
                   pvalues, tested, clusters, mask, pvalues_, largest_p_i,
                   accepted_index, pvalues_accepted, delete_index,
                   accepted_from, deleted_from, compute_loops_ret>>

\* what lines 207-221 can make of one candidate: mannwhitneyu raises, the
\* p-value is NaN, or it is a number (the baseline is drawn at random)
TestOutcomes ==
    {<<"exception", 0>>, <<"nan", 0>>} \cup {<<"pvalue", p>> : p \in 1 .. MaxP}

\* lines 187-235
Tester ==
    /\ pc = "tester"
    /\ \E outcome \in [DOMAIN pCandidates -> TestOutcomes] :
          LET m == [k \in DOMAIN pCandidates |->
                       outcome[k][1] = "pvalue" /\ outcome[k][2] < pPValue]
          IN  /\ mask' = m
              /\ pvalues' = BoolIndex([k \in DOMAIN pCandidates |-> outcome[k][2]], m)
              /\ pCandidates' = BoolIndex(pCandidates, m)
    /\ tested' = [candidates |-> pCandidates', pvalues |-> pvalues']
    /\ pc' = "cluster"
    /\ UNCHANGED <<mainVars, zVars, pQueue, pWindowSize, pPValue, pQValue, clusters,
                   pvalues_, largest_p_i, accepted_index, pvalues_accepted,
                   delete_index, accepted_from, deleted_from, ret,
                   compute_loops_ret>>

\* lines 237-242: euclidean_distances (and dbscan) refuse an array of 0 samples
Cluster ==
    /\ pc = "cluster"
    /\ IF pCandidates = <<>>
          THEN pc' = "ValueError" /\ clusters' = clusters
          ELSE pc' = "collapse" /\ clusters' = Dbscan(pCandidates, pWindowSize)
    /\ mask' = <<>>
    /\ UNCHANGED <<mainVars, zVars, pQueue, pWindowSize, pPValue, pQValue, pCandidates,
                   pvalues, tested, pvalues_, largest_p_i, accepted_index,
                   pvalues_accepted, delete_index, accepted_from,
                   deleted_from, ret, compute_loops_ret>>

\* lines 243-264
CollapseClusters ==
    /\ pc = "collapse"
    /\ mask' = ClusterMask(clusters, pvalues)
    /\ pCandidates' = BoolIndex(pCandidates, mask')
    /\ pvalues' = BoolIndex(pvalues, mask')
    /\ pc' = "fdr"
    /\ UNCHANGED <<mainVars, zVars, pQueue, pWindowSize, pPValue, pQValue, tested,
                   clusters, pvalues_, largest_p_i, accepted_index,
                   pvalues_accepted, delete_index, accepted_from,
                   deleted_from, ret, compute_loops_ret>>

\* the rows of tested that the mask of lines 243-258 kept, in order
KeptRows == BoolIndex([k \in DOMAIN mask |-> k], mask)

\* lines 266-283
FDR ==
    /\ pc = "fdr"
    /\ pvalues_' = Sort(pvalues)
    /\ largest_p_i' = LargestP(pvalues_', pQValue, 1, NegInf)
    /\ LET rows == AcceptedRows(pvalues, largest_p_i')
       IN  /\ accepted_index' = [k \in DOMAIN rows |-> pCandidates[rows[k]]]
           /\ pvalues_accepted' = [k \in DOMAIN rows |-> pvalues[rows[k]]]
           /\ accepted_from' = [k \in DOMAIN rows |-> KeptRows[rows[k]]]
    /\ IF Len(accepted_index') = 0
          THEN ret' = ReturnNone /\ pc' = "contacts_returned"
          ELSE ret' = ret /\ pc' = "remove_duplicates"
    /\ UNCHANGED <<mainVars, zVars, pQueue, pWindowSize, pPValue, pQValue, pCandidates,
                   pvalues, tested, clusters, mask, delete_index,
                   deleted_from, compute_loops_ret>>

\* lines 284-307.  (The swap of lines 286-289 writes through to pCandidates,
\* whose rows accepted_index holds; pCandidates is not read again.)
RemoveDuplicates ==
    /\ pc = "remove_duplicates"
    /\ LET canonical == [k \in DOMAIN accepted_index |-> Canonical(accepted_index[k])]
           del == DuplicateScan(canonical, 1, {}, {}, {})
       IN  /\ delete_index' = del
           /\ accepted_index' = Delete(canonical, del)
           /\ pvalues_accepted' = Delete(pvalues_accepted, del)
           /\ accepted_from' = Delete(accepted_from, del)
           /\ deleted_from' = {accepted_from[k] : k \in del}
    /\ ret' = [none |-> FALSE, candidates |-> accepted_index',
               pvalues |-> pvalues_accepted']
    /\ pc' = "contacts_returned"
    /\ UNCHANGED <<mainVars, zVars, pQueue, pWindowSize, pPValue, pQValue, pCandidates,
                   pvalues, tested, clusters, mask, pvalues_, largest_p_i,
                   compute_loops_ret>>

MaxLoopDistances ==
    {[isNone |-> TRUE, value |-> 0]} \cup
    {[isNone |-> FALSE, value |-> d] : d \in 0 .. MaxBin}

\* lines 360-376 of compute_loops
ComputeLoopsEnd ==
    /\ pc = "contacts_returned"
    /\ \E maxLoopDistance \in MaxLoopDistances :
          LET out == IF ret.none THEN NoLoops
                     ELSE [none |-> FALSE,
                           loops |-> cluster_to_genome_position_mapping(
                                        ret.candidates, ret.pvalues, maxLoopDistance)]
          IN  IF pQueue.isNone
                 THEN compute_loops_ret' = out /\ pQueue' = pQueue
                 ELSE /\ compute_loops_ret' = compute_loops_ret
                      /\ pQueue' = [pQueue EXCEPT !.items = Append(@, out)]
    /\ pc' = "compute_loops_done"
    /\ UNCHANGED <<mainVars, zVars, pWindowSize, pPValue, pQValue, pCandidates,
                   pvalues, tested, clusters, mask, pvalues_, largest_p_i,
                   accepted_index, pvalues_accepted, delete_index,
                   accepted_from, deleted_from, ret>>

ZInit ==
    /\ pc = "compute_zscore_matrix"
    /\ MainIdle
    /\ LoopIdle
    /\ \E m \in Matrices :
          matrix = [k \in DOMAIN m[2] |->
                       [row |-> m[2][k][1], col |-> m[2][k][2], value |-> m[1][k]]]
    /\ pZscoreThreshold \in 0 .. MaxZ
    /\ pPeakInteractionsThreshold \in 0 .. MaxPit
    /\ sum_per_distance = <<>>
    /\ distance_count = <<>>
    /\ zscore_matrix = <<>>
    /\ candidates = [none |-> TRUE, list |-> <<>>]

ZNext ==
    \/ ComputeZscoreMatrix
    \/ ScreenContacts

SpecZ == ZInit /\ [][ZNext]_vars

Init == MainInit /\ LoopIdle /\ ZIdle

MainStep ==
    \/ LoadMatrix
    \/ SingleCore
    \/ MultiCoreSetup
    \/ While
    \/ ForBody
    \/ AfterFor

Next ==
    \/ LoadMatrix
    \/ SingleCore
    \/ MultiCoreSetup
    \/ While
    \/ ForBody
    \/ AfterFor
    \/ WorkerPut

Spec == Init /\ [][Next]_vars

\* main() keeps running while it has a step to take, and every started worker
\* eventually posts its result
FairSpec == Init /\ [][Next]_vars /\ WF_vars(MainStep) /\ WF_vars(WorkerPut)


\* compute_loops, from the candidates the screening left
LoopsNext ==
    \/ ComputeLoopsStart
    \/ Screen
    \/ Tester
    \/ Cluster
    \/ CollapseClusters
    \/ FDR
    \/ RemoveDuplicates
    \/ ComputeLoopsEnd

SpecLoops == LoopsInit /\ [][LoopsNext]_vars

\* candidate_uniform_distribution_test, from line 237
TestedNext ==
    \/ Cluster
    \/ CollapseClusters
    \/ FDR
    \/ RemoveDuplicates

\* the FDR step and the duplicate suppression read no window size: the
\* smallest window leaves the most candidates for them
DedupInit == TestedInit(MaxCand, {1})

SpecDedup == DedupInit /\ [][TestedNext]_vars

DedupWideInit == TestedInit(MaxCandWide, 1 .. MaxW)

SpecDedupWide == DedupWideInit /\ [][TestedNext]_vars

\* the clustering and the scan of lines 237-264 alone
CollapseNext ==
    \/ Cluster
    \/ CollapseClusters

SpecCollapse == ClusteredInit /\ [][CollapseNext]_vars

\* ----------------------------------------------------------- orchestrator
MultiChromosomeMode == is_cooler /\ Len(chromosomes_list) >= 2

InLoop == pc \in {"while", "for", "after_for", "IndexError"}

\* C1: in multi-chromosome mode, whenever the for loop is about to start a
\* worker (line 442 holds for slot i), count_call_of_read_input is a valid
\* position of chromosomes_list, so the list is never indexed past its end.
C1_DispatchIndexInRange ==
    (pc = "for" /\ DispatchGuard(i))
        => count_call_of_read_input < Len(chromosomes_list)

\* the concatenation of the loop lists of the chromosomes, in the order perm
RECURSIVE ConcatLoops(_, _)
ConcatLoops(perm, k) ==
    IF k > Len(perm) THEN <<>>
    ELSE worker_result[perm[k]].loops \o ConcatLoops(perm, k + 1)

Orders(n) ==
    {f \in [1 .. n -> 1 .. n] : \A a, b \in 1 .. n : a # b => f[a] # f[b]}

MergedEveryChromosomeOnce ==
    \E perm \in Orders(Len(chromosomes_list)) :
        mapped_loops = ConcatLoops(perm, 1)

\* C2: in multi-chromosome mode, when every started worker eventually posts,
\* the polling loop eventually exits normally with all_data_processed and
\* all_threads_done true and mapped_loops the concatenation, in some order,
\* of every chromosome's loop list, each once.
C2_EventuallyExitsMerged ==
    MultiChromosomeMode =>
        <>(/\ pc = "done"
           /\ all_data_processed
           /\ all_threads_done
           /\ MergedEveryChromosomeOnce)

\* C3: at most args.threads workers are alive, and every worker ever started
\* either is the one worker now owning its slot's queue, or had its result
\* taken and merged (and its slot's queue reset) before the slot was reused.
C3_PoolBounded ==
    InLoop =>
        /\ Cardinality(procs) <= threads
        /\ \A p \in procs : queue[p.slot].id = p.pid /\ process[p.slot] = p.pid
        /\ \A k \in 1 .. count_call_of_read_input :
              \/ \E p \in procs : p.pid = k
              \/ \E m \in merged : m.pid = k /\ queue[m.slot].id # k

\* C3 witness: every slot is busy and one of them runs its second worker
C3_SlotReused ==
    /\ pc = "for"
    /\ Cardinality(procs) = threads
    /\ \E p \in procs : \E m \in merged : m.slot = p.slot

\* ------------------------------------------------------------ FDR control
\* the ranks i (1-based) with p_(i) <= q * i / m
OnOrBelowBHLine ==
    {k \in DOMAIN pvalues_ : pvalues_[k] * Len(pvalues_) <= pQValue * k}

MaxOf(S) == CHOOSE a \in S : \A b \in S : a >= b

IsAscending(a) == \A k \in 1 .. (Len(a) - 1) : a[k] <= a[k + 1]

Occurrences(a, v) == Cardinality({k \in DOMAIN a : a[k] = v})

FdrHasRun == pc = "remove_duplicates" \/ (pc = "contacts_returned" /\ ret.none)

\* C4: pvalues_ is the ascending sort of the p-values that reach the FDR step;
\* p* is p_(i) for the largest i with p_(i) <= q*i/m; exactly the candidates
\* with p-value < p* are accepted, in order; with no such i nothing is
\* accepted and the function returns (None, None).
C4_FdrThreshold ==
    FdrHasRun =>
        /\ Len(pvalues_) = Len(pvalues)
        /\ IsAscending(pvalues_)
        /\ \A v \in 1 .. MaxP : Occurrences(pvalues_, v) = Occurrences(pvalues, v)
        /\ IF OnOrBelowBHLine = {}
              THEN /\ accepted_index = <<>>
                   /\ pc = "contacts_returned"
                   /\ ret = ReturnNone
              ELSE LET pstar == pvalues_[MaxOf(OnOrBelowBHLine)]
                       below == {k \in DOMAIN pvalues : pvalues[k] < pstar}
                   IN  /\ largest_p_i = pstar
                       /\ Len(accepted_index) = Cardinality(below)
                       /\ \A j \in DOMAIN accepted_index :
                             LET k == CHOOSE k \in below :
                                         Cardinality({x \in below : x <= k}) = j
                             IN  /\ accepted_index[j] = pCandidates[k]
                                 /\ pvalues_accepted[j] = pvalues[k]
                       /\ (below = {}) <=> (pc = "contacts_returned" /\ ret = ReturnNone)

\* C4 witness: three p-values reach the FDR step, one lies above the
\* Benjamini-Hochberg line, one is accepted and one (equal to p*) is not
C4_SomeAcceptedSomeNot ==
    /\ pc = "remove_duplicates"
    /\ Len(pvalues_) = 3
    /\ OnOrBelowBHLine # {}
    /\ OnOrBelowBHLine # DOMAIN pvalues_
    /\ Len(accepted_index) >= 1

\* --------------------------------------------------------- order of stages
\* the rows of tested whose p-values the FDR step ranks
FdrRows == {k \in DOMAIN mask : mask[k]}

C6_ReturnedApart ==
    (pc = "contacts_returned" /\ ~ret.none) =>
        \A a, b \in DOMAIN ret.candidates :
            (/\ a # b
             /\ clusters[accepted_from[a]] # Noise
             /\ clusters[accepted_from[b]] # Noise)
                => ~Within(ret.candidates[a], ret.candidates[b], pWindowSize)

\* the members of cluster label
Members(label) == {k \in DOMAIN clusters : clusters[k] = label}

\* C7: after the scan, of every non-noise cluster exactly one member is kept,
\* the first in scan order of those with the lowest p-value; every noise
\* candidate is kept; the kept candidates and p-values stay paired, in order.
C7_LowestPValuePerCluster ==
    pc = "fdr" =>
        /\ Len(mask) = Len(clusters)
        /\ \A k \in DOMAIN clusters : clusters[k] = Noise => mask[k]
        /\ \A k \in DOMAIN clusters :
              clusters[k] # Noise =>
                  (mask[k] <=>
                      /\ \A o \in Members(clusters[k]) :
                            tested.pvalues[k] <= tested.pvalues[o]
                      /\ \A o \in Members(clusters[k]) :
                            tested.pvalues[o] = tested.pvalues[k] => k <= o)
        /\ Len(pCandidates) = Cardinality(FdrRows)
        /\ Len(pvalues) = Cardinality(FdrRows)
        /\ \A j \in DOMAIN pCandidates :
              LET k == CHOOSE k \in FdrRows :
                          Cardinality({x \in FdrRows : x <= k}) = j
              IN  /\ pCandidates[j] = tested.candidates[k]
                  /\ pvalues[j] = tested.pvalues[k]

\* C7 witness: two members of a cluster tie for its lowest p-value, the first
\* is kept; a noise candidate is kept too
C7_TieKeepsFirst ==
    /\ pc = "fdr"
    /\ \E a, b \in DOMAIN clusters :
          /\ a < b
          /\ clusters[a] = clusters[b]
          /\ clusters[a] # Noise
          /\ tested.pvalues[a] = tested.pvalues[b]
          /\ mask[a]
          /\ ~mask[b]
    /\ \E n \in DOMAIN clusters : clusters[n] = Noise

\* ------------------------------------------------------------ empty result
\* a stage has left no candidate: the screening or the FDR step returned
\* (None, None), or the test rejected every candidate
NoCandidateSurvived ==
    \/ pc \in {"contacts_returned", "compute_loops_done"} /\ ret.none
    \/ pc \in {"cluster", "ValueError"} /\ tested.candidates = <<>>

\* C8: once a stage has left no candidate, compute_loops does not raise, and
\* it ends returning None (no queue) or with [None] put on the queue.
C8_NoLoopsSignal ==
    NoCandidateSurvived =>
        /\ pc \notin {"ValueError", "AttributeError"}
        /\ pc = "compute_loops_done" =>
              IF pQueue.isNone THEN compute_loops_ret = NoLoops
              ELSE pQueue.items = <<NoLoops>>

\* ----------------------------------------------------------------- z-scores
\* the entries of the z-score matrix at distance d
AtDistance(d) ==
    {k \in DOMAIN zscore_matrix :
        Distance([row |-> zscore_matrix[k].row, col |-> zscore_matrix[k].col]) = d}

RECURSIVE SumDev(_)
SumDev(S) ==
    IF S = {} THEN 0
    ELSE LET k == CHOOSE k \in S : TRUE
         IN  zscore_matrix[k].dev + SumDev(S \ {k})

RECURSIVE SumDevSquared(_)
SumDevSquared(S) ==
    IF S = {} THEN 0
    ELSE LET k == CHOOSE k \in S : TRUE
         IN  zscore_matrix[k].dev * zscore_matrix[k].dev + SumDevSquared(S \ {k})

\* C9: for every distance d with a stored entry, the z-scores at d have mean 0
\* (the deviations sum to 0) and variance 1.  With z = dev / c for the common
\* c = sqrt(sq / n), the mean is SumDev / (n * c) and the variance is
\* (n * SumDevSquared - SumDev^2) / (n * sq).
C9_ZeroMeanUnitVariance ==
    pc # "compute_zscore_matrix" =>
        \A d \in 0 .. (Shape - 1) :
            AtDistance(d) # {} =>
                LET S == AtDistance(d)
                    n == Cardinality(S)
                    sq == zscore_matrix[CHOOSE k \in S : TRUE].sq
                IN  /\ SumDev(S) = 0
                    /\ n * SumDevSquared(S) - SumDev(S) * SumDev(S) = n * sq

\* C10: the candidates are exactly the stored positions whose z-score is
\* >= zScoreThreshold and whose raw count, at that position, is
\* > peakInteractionsThreshold.
C10_CandidatesAreTheScreened ==
    pc \in {"screened", "ValueError", "IndexError"} =>
        /\ pc = "screened"
        /\ {candidates.list[k] : k \in DOMAIN candidates.list} =
              {<<matrix[k].row, matrix[k].col>> : k \in
                  {j \in DOMAIN matrix :
                      /\ AtLeast(zscore_matrix[j], pZscoreThreshold)
                      /\ matrix[j].value > pPeakInteractionsThreshold}}

\* ------------------------------------------------- FDR: never all accepted
\* C11: the FDR step never accepts all of the m candidates that reach it: no
\* accepted candidate has the p-value p*, so at most m - 1 are accepted, and
\* with m = 1 the result is (None, None) whatever the p-value.
C11_FdrNeverAcceptsAll ==
    FdrHasRun =>
        /\ Len(accepted_index) <= Len(pvalues) - 1
        /\ \A j \in DOMAIN pvalues_accepted : pvalues_accepted[j] # largest_p_i
        /\ \A k \in DOMAIN pvalues :
              pvalues[k] = largest_p_i =>
                  \A j \in DOMAIN accepted_from : accepted_from[j] # KeptRows[k]
        /\ Len(pvalues) = 1 => (pc = "contacts_returned" /\ ret = ReturnNone)

\* C11 witness: a single candidate reaches the FDR step, its p-value lies on
\* or below the Benjamini-Hochberg line, and the result is (None, None)
C11_LoneCandidateRejected ==
    /\ pc = "contacts_returned"
    /\ ret = ReturnNone
    /\ Len(pvalues_) = 1
    /\ OnOrBelowBHLine # {}
    /\ largest_p_i = pvalues[1]

====
